---- MODULE Spec2Model ----
(***************************************************************************)
(* State-machine model of the Streamlit chat front-end:                    *)
(*   - the chat store kept in st.session_state (app/state/session_state.py *)
(*     and the inline handlers of app/components/sidebar.py),              *)
(*   - the turn controller of app/components/chat.py (submit / resolve),   *)
(*   - the call governor of app/utils/mistral_client.py (RateLimiter and   *)
(*     chat_with_mistral).                                                 *)
(* Python dicts are insertion-ordered: chat_sessions is a sequence of      *)
(* [k, v] entries.  Strings are TLA+ strings; Len, \o and SubSeq act on    *)
(* them character by character.                                            *)
(***************************************************************************)
EXTENDS Integers, Sequences, FiniteSets, TLC

VARIABLES
    chat_sessions,      \* st.session_state.chat_sessions : ordered dict name -> messages
    current_chat,       \* st.session_state.current_chat
    chat_titles,        \* st.session_state.chat_titles : dict name -> title
    messages,           \* st.session_state.messages (the active message view)
    thinking,           \* st.session_state.thinking
    needs_response,     \* st.session_state.needs_response
    last_user_input,    \* st.session_state.last_user_input : <<>> when the key is absent
    selected_model,     \* st.session_state.selected_model  : <<>> when the key is absent
    max_tokens,         \* st.session_state.max_tokens      : <<>> when the key is absent
    uploaded_images,    \* st.session_state.uploaded_images (image_previews goes with it)
    turns,              \* number of submits handled so far (bounds the run)
    now,                \* the wall clock, time.time(), in whole seconds
    calls_per_minute,   \* rate_limiter.calls_per_minute
    call_times,         \* rate_limiter.call_times
    recorded,           \* every timestamp wait_if_needed has appended, in order
    gov,                \* the frame of the running chat_with_mistral / wait_if_needed call
    dispatched,         \* the running call's exchanges with client.chat.complete
    slept,              \* back-off sleeps requested by the running call
    peers               \* frames of the sessions' threads inside wait_if_needed

storeVars == <<chat_sessions, current_chat, chat_titles, messages>>
turnVars  == <<thinking, needs_response, last_user_input, selected_model, max_tokens,
               uploaded_images, turns>>
govVars   == <<now, calls_per_minute, call_times, recorded, gov, dispatched, slept, peers>>
vars      == <<storeVars, turnVars, govVars>>

(***************************************************************************)
(* Bounds of the model.                                                    *)
(***************************************************************************)
MaxMsgs    == 3     \* messages the store may hold before appends stop
MaxTurns   == 2     \* submits in one run
MaxRetries == 2     \* largest max_retries drawn for a direct governor call
MaxCap     == 2     \* largest calls_per_minute drawn for a limiter
MaxCalls   == 4     \* wait_if_needed calls of the sequential caller
MaxTextLen == 64    \* longest first message whose title is derived
MaxUploads == 2     \* images the session may hold before uploads stop
MaxSessions == 2    \* sessions whose threads share the module-level limiter

(***************************************************************************)
(* Program constants.                                                      *)
(***************************************************************************)
WINDOW               == 60    \* RateLimiter window, seconds
DEFAULT_CPM          == 60    \* RateLimiter.__init__ default, used by the global limiter
DEFAULT_MAX_RETRIES  == 3     \* chat_with_mistral default
DEFAULT_TIMEOUT      == 60    \* chat_with_mistral default
DEFAULT_MAX_TOKENS   == 500   \* fallback of _process_pending_message
BACKOFF_BASE         == 2     \* base of the back-off: 2 ** retries
max_length           == 40    \* _derive_title_from_message
SPLIT_EXTRA          == 20    \* message[:max_length+20]
SENTENCE_EXTRA       == 10    \* len(first_sentence) <= max_length + 10

(***************************************************************************)
(* Ordered dict (chat_sessions) and plain dict (chat_titles).              *)
(***************************************************************************)
Keys(d)   == [i \in 1..Len(d) |-> d[i].k]
KeySet(d) == {d[i].k : i \in 1..Len(d)}
Has(d, k) == k \in KeySet(d)
Idx(d, k) == CHOOSE i \in 1..Len(d) : d[i].k = k
Get(d, k) == d[Idx(d, k)].v
Put(d, k, val) ==
    IF Has(d, k) THEN [d EXCEPT ![Idx(d, k)].v = val]
    ELSE Append(d, [k |-> k, v |-> val])
Del(d, k) ==
    LET i == Idx(d, k) IN SubSeq(d, 1, i - 1) \o SubSeq(d, i + 1, Len(d))

TPut(t, k, val) == [x \in DOMAIN t \cup {k} |-> IF x = k THEN val ELSE t[x]]
TDel(t, k)      == [x \in DOMAIN t \ {k} |-> t[x]]
EmptyDict       == [x \in {} |-> ""]

Msg(role, content) == [role |-> role, content |-> content]

\* number of messages held by the conversations of d
RECURSIVE TotalUpTo(_, _)
TotalUpTo(d, n) == IF n = 0 THEN 0 ELSE Len(d[n].v) + TotalUpTo(d, n - 1)
TotalMsgs(d) == TotalUpTo(d, Len(d))

(***************************************************************************)
(* Strings.                                                                *)
(***************************************************************************)
Char(s, i)   == SubSeq(s, i, i)
Prefix(s, n) == IF Len(s) <= n THEN s ELSE SubSeq(s, 1, n)
IsSpace(c)   == c \in {" ", "\t", "\n"}
IsStop(c)    == c \in {".", "!", "?"}
\* Variant of StripIsEmpty: the string is tested without being stripped.
StripIsEmpty_unstripped(s) == Len(s) = 0

\* str.strip() leaves the empty string exactly when every character is white space
StripIsEmpty(s) == \A i \in 1..Len(s) : IsSpace(Char(s, i))

\* Variant of FirstSentence: the sentence ends with the first sentence stop,
\* whatever follows it.
FirstSentence_any_stop(s) ==
    LET cuts == {i \in 2..(Len(s) + 1) : IsStop(Char(s, i - 1))}
    IN  IF cuts = {} THEN s
        ELSE LET i == CHOOSE c \in cuts : \A o \in cuts : c <= o
             IN  SubSeq(s, 1, i - 1)

\* re.split(r'(?<=[.!?])\s+', s)[0]: s up to the first white space that follows
\* a sentence stop, the whole of s when there is none
FirstSentence(s) ==
    LET cuts == {i \in 2..Len(s) : IsSpace(Char(s, i)) /\ IsStop(Char(s, i - 1))}
    IN  IF cuts = {} THEN s
        ELSE LET i == CHOOSE c \in cuts : \A o \in cuts : c <= o
             IN  SubSeq(s, 1, i - 1)

\* Variant of _derive_title_from_message: a message of exactly max_length
\* characters is shortened as well.
_derive_title_from_message_strict(message) ==
    IF Len(message) < max_length THEN message
    ELSE LET first_sentence == FirstSentence(Prefix(message, max_length + SPLIT_EXTRA))
         IN  IF Len(first_sentence) <= max_length + SENTENCE_EXTRA
             THEN first_sentence
             ELSE Prefix(message, max_length) \o "..."

\* Variant of _derive_title_from_message: the first sentence is taken
\* whenever the split finds one, however long.
_derive_title_from_message_any_sentence(message) ==
    IF Len(message) <= max_length THEN message
    ELSE LET first_sentence == FirstSentence(Prefix(message, max_length + SPLIT_EXTRA))
         IN  IF Len(first_sentence) < Len(Prefix(message, max_length + SPLIT_EXTRA))
             THEN first_sentence
             ELSE Prefix(message, max_length) \o "..."

_derive_title_from_message(message) ==
    IF Len(message) <= max_length THEN message
    ELSE LET first_sentence == FirstSentence(Prefix(message, max_length + SPLIT_EXTRA))
         IN  IF Len(first_sentence) <= max_length + SENTENCE_EXTRA
             THEN first_sentence
             ELSE Prefix(message, max_length) \o "..."

(***************************************************************************)
(* Inputs.                                                                 *)
(***************************************************************************)
\* time.strftime('%H:%M'): the idle time between two script runs is arbitrary
\* and the value wraps every day, so any minute may follow any other
Minutes == {"00:00", "00:01"}
ChatName(hm) == "Chat " \o hm
\* names a caller or the rename box can supply
NameInputs == {"", " ", "New Chat", ChatName("00:00")}
\* a name no conversation ever has
Ghost == "No such chat"
LongText == "Tell me more. I would like a long answer about the seasons of the year."
Texts    == {"Hello", LongText}
\* the model select box and the token box of the form
FormInputs == {[model |-> "mistral-small-latest", max_tokens |-> 200, images |-> <<>>],
               [model |-> "mistral-large-latest", max_tokens |-> 250, images |-> <<"img">>]}
\* what a caller of add_message appends
Appends == {Msg("assistant", "Thinking...")}
default_model   == "mistral-small-latest"

\* get_chat_title / get_chat_display_name
get_chat_title(chat_name) ==
    IF chat_name \in DOMAIN chat_titles THEN chat_titles[chat_name] ELSE chat_name

(***************************************************************************)
(* The frame of the governor call.  pc = "none": the script thread is not  *)
(* inside chat_with_mistral or wait_if_needed, and a handler may run.      *)
(***************************************************************************)
NoCall ==
    [pc |-> "none", caller |-> "none", ret |-> "none",
     model |-> "", messages |-> <<>>, image |-> <<>>, max_tokens |-> 0,
     max_retries |-> 0, timeout |-> 0,
     start_time |-> 0, retries |-> 0, wait_time |-> 0, result |-> <<>>]

Idle == gov.pc = "none"

\* the threads of the sessions of the process, none of them inside
\* wait_if_needed
Sessions == 1..MaxSessions
NoPeer  == [pc |-> "out", now |-> 0, pruned |-> <<>>, wake |-> 0]
NoPeers == [t \in Sessions |-> NoPeer]

\* initialize_session_state (and the same defaults in create_sidebar and
\* ChatInterface.__init__)
SessionInit ==
    /\ chat_sessions = <<[k |-> "New Chat", v |-> <<>>]>>
    /\ current_chat = "New Chat"
    /\ chat_titles = EmptyDict
    /\ messages = <<>>
    /\ thinking = FALSE
    /\ needs_response = FALSE
    /\ last_user_input = <<>>
    /\ selected_model = <<>>
    /\ max_tokens = <<>>
    /\ uploaded_images = <<>>
    /\ turns = 0

\* RateLimiter.__init__, and no call running
LimiterInit(cpm) ==
    /\ now = 0
    /\ calls_per_minute = cpm
    /\ call_times = <<>>
    /\ recorded = <<>>
    /\ gov = NoCall
    /\ dispatched = <<>>
    /\ slept = <<>>
    /\ peers = NoPeers

(***************************************************************************)
(* Chat store: app/state/session_state.py                                  *)
(***************************************************************************)
\* Variant of create_new_chat: the message view is not reset.
create_new_chat_keep_view(hm) ==
    LET new_chat_name == ChatName(hm) IN
    /\ Idle
    /\ chat_sessions' = Put(chat_sessions, new_chat_name, <<>>)
    /\ current_chat' = new_chat_name
    /\ UNCHANGED <<messages, chat_titles, turnVars, govVars>>

create_new_chat(hm) ==
    LET new_chat_name == ChatName(hm) IN
    /\ Idle
    /\ chat_sessions' = Put(chat_sessions, new_chat_name, <<>>)
    /\ current_chat' = new_chat_name
    /\ messages' = <<>>
    /\ UNCHANGED <<chat_titles, turnVars, govVars>>

\* Variant of switch_to_chat: the message view is not replaced.
switch_to_chat_keep_view(chat_name) ==
    /\ Idle
    /\ IF ~Has(chat_sessions, chat_name)
       THEN UNCHANGED current_chat
       ELSE current_chat' = chat_name
    /\ UNCHANGED <<messages, chat_sessions, chat_titles, turnVars, govVars>>

switch_to_chat(chat_name) ==
    /\ Idle
    /\ IF ~Has(chat_sessions, chat_name)
       THEN UNCHANGED <<current_chat, messages>>
       ELSE /\ current_chat' = chat_name
            /\ messages' = Get(chat_sessions, chat_name)
    /\ UNCHANGED <<chat_sessions, chat_titles, turnVars, govVars>>

\* Variant of DeleteRefused: only an empty store refuses.
DeleteRefused_below_one(d, chat_name) == ~Has(d, chat_name) \/ Len(d) < 1

\* lines 135-141: the two refusals of delete_chat
DeleteRefused(d, chat_name) == ~Has(d, chat_name) \/ Len(d) <= 1

\* Variant of FailOver: the deleting handler never moves the active name.
FailOver_stay(remaining, chat_name, current) == [k |-> current, v |-> messages]

\* Variant of FailOver: the last remaining conversation becomes current.
FailOver_last(remaining, chat_name, current) ==
    IF chat_name = current /\ Len(remaining) > 0
    THEN remaining[Len(remaining)]
    ELSE [k |-> current, v |-> messages]

\* lines 149-154 (sidebar 146-148): the conversation that is current once
\* chat_name is gone and remaining is left; with nothing left keys()[0]
\* raises and current_chat and messages stay
FailOver(remaining, chat_name, current) ==
    IF chat_name = current /\ Len(remaining) > 0
    THEN remaining[1]              \* list(chat_sessions.keys())[0]
    ELSE [k |-> current, v |-> messages]

delete_chat(chat_name) ==
    /\ Idle
    /\ IF DeleteRefused(chat_sessions, chat_name)
       THEN UNCHANGED <<chat_sessions, current_chat, messages>>
       ELSE LET remaining == Del(chat_sessions, chat_name)
                next_chat == FailOver(remaining, chat_name, current_chat) IN
            /\ chat_sessions' = remaining
            /\ current_chat' = next_chat.k
            /\ messages' = next_chat.v
    /\ UNCHANGED <<chat_titles, turnVars, govVars>>

\* Variant of Renamed: the entry is stored under the new name before the old
\* name is removed.
Renamed_insert_first(d, chat_name, new_name, msgs) == Del(Put(d, new_name, msgs), chat_name)

\* lines 178-184 (sidebar 93-97): the old key is removed, then the list is
\* stored under the new one
Renamed(d, chat_name, new_name, msgs) == Put(Del(d, chat_name), new_name, msgs)

\* Variant of RenamedTitles: the new name becomes the title, whatever was
\* cached for the old one.
RenamedTitles_fresh(t, chat_name, new_name) == TPut(TDel(t, chat_name), new_name, new_name)

\* lines 191-196: the cached title moves to the new name, which is its own
\* title when nothing was cached
RenamedTitles(t, chat_name, new_name) ==
    IF chat_name \in DOMAIN t
    THEN TDel(TPut(t, new_name, t[chat_name]), chat_name)
    ELSE TPut(t, new_name, new_name)

rename_chat(chat_name, new_name) ==
    /\ Idle
    /\ IF StripIsEmpty(new_name) \/ ~Has(chat_sessions, chat_name)
       THEN UNCHANGED <<chat_sessions, current_chat, messages, chat_titles>>
       ELSE LET msgs == Get(chat_sessions, chat_name) IN
            /\ chat_sessions' = Renamed(chat_sessions, chat_name, new_name, msgs)
            /\ IF chat_name = current_chat
               THEN /\ current_chat' = new_name
                    /\ messages' = msgs
               ELSE UNCHANGED <<current_chat, messages>>
            /\ chat_titles' = RenamedTitles(chat_titles, chat_name, new_name)
    /\ UNCHANGED <<turnVars, govVars>>

add_message(role, content) ==
    /\ Idle
    /\ TotalMsgs(chat_sessions) < MaxMsgs
    /\ Len(messages) < MaxMsgs
    /\ messages' = Append(messages, Msg(role, content))
    /\ chat_sessions' = Put(chat_sessions, current_chat, messages')
    /\ UNCHANGED <<current_chat, chat_titles, turnVars, govVars>>

(***************************************************************************)
(* Chat store: the inline handlers of create_sidebar                       *)
(***************************************************************************)
SidebarNew(hm) ==
    LET new_chat_name == ChatName(hm) IN
    /\ Idle
    /\ chat_sessions' = Put(chat_sessions, new_chat_name, <<>>)
    /\ current_chat' = new_chat_name
    /\ messages' = <<>>
    /\ UNCHANGED <<chat_titles, turnVars, govVars>>

\* lines 72-75 then 91-104: the Rename button shows the input (show_rename_input,
\* which nothing else reads), the Save button renames the current chat and
\* hides it again
SidebarSave(new_title) ==
    /\ Idle
    /\ ~StripIsEmpty(new_title)
    /\ LET msgs == Get(chat_sessions, current_chat) IN
       chat_sessions' = Renamed(chat_sessions, current_chat, new_title, msgs)
    /\ current_chat' = new_title
    /\ chat_titles' = TPut(chat_titles, new_title, new_title)
    /\ UNCHANGED <<messages, turnVars, govVars>>

SidebarSwitch(chat_name) ==
    /\ Idle
    /\ Has(chat_sessions, chat_name)
    /\ chat_name # current_chat
    /\ current_chat' = chat_name
    /\ messages' = Get(chat_sessions, chat_name)
    /\ UNCHANGED <<chat_sessions, chat_titles, turnVars, govVars>>

SidebarDelete(chat_name) ==
    /\ Idle
    /\ Has(chat_sessions, chat_name)
    /\ Len(chat_sessions) > 1
    /\ LET remaining == Del(chat_sessions, chat_name)
           next_chat == FailOver(remaining, chat_name, current_chat) IN
       /\ chat_sessions' = remaining
       /\ current_chat' = next_chat.k
       /\ messages' = next_chat.v
    /\ UNCHANGED <<chat_titles, turnVars, govVars>>

(***************************************************************************)
(* Rate limiter: RateLimiter.wait_if_needed                                *)
(***************************************************************************)
Prune(times, t) == SelectSeq(times, LAMBDA c : t - c < WINDOW)

\* Variant of WaitTime: the caller waits only once the log is over the cap.
WaitTime_over(pruned, t, cpm) ==
    IF Len(pruned) > cpm
    THEN LET wait_time == WINDOW - (t - pruned[1])
         IN  IF wait_time > 0 THEN wait_time ELSE 0
    ELSE 0

\* wait_time of a caller that reads the clock at t and finds the pruned log
WaitTime(pruned, t, cpm) ==
    IF Len(pruned) >= cpm
    THEN LET oldest_call == pruned[1]
             wait_time == WINDOW - (t - oldest_call)
         IN  IF wait_time > 0 THEN wait_time ELSE 0
    ELSE 0

\* lines 36-44: read the clock, prune, decide how long to sleep
wait_if_needed_check ==
    /\ gov.pc = "rl_check"
    /\ LET pruned == Prune(call_times, now) IN
       /\ call_times' = pruned
       /\ gov' = [gov EXCEPT !.pc = "rl_record",
                             !.wait_time = WaitTime(pruned, now, calls_per_minute)]
    /\ UNCHANGED <<now, calls_per_minute, peers, recorded, dispatched, slept, storeVars, turnVars>>

\* lines 46-49: time.sleep(wait_time) returns no sooner than asked (late by
\* delay), then the clock is read again and appended
wait_if_needed_record(delay) ==
    /\ gov.pc = "rl_record"
    /\ now' = now + gov.wait_time + delay
    /\ call_times' = Append(call_times, now')
    /\ recorded' = Append(recorded, now')
    /\ gov' = [gov EXCEPT !.pc = gov.ret, !.wait_time = 0]
    /\ UNCHANGED <<calls_per_minute, peers, dispatched, slept, storeVars, turnVars>>

(***************************************************************************)
(* wait_if_needed run by the threads of several sessions on the one        *)
(* module-level limiter, statement by statement; no lock is taken          *)
(***************************************************************************)
Max(a, b) == IF a >= b THEN a ELSE b

InFlight == Cardinality({t \in Sessions : peers[t].pc # "out"})

\* line 36: now = time.time(), gap seconds after the last step of any thread
SessionEnter(t, gap) ==
    /\ peers[t].pc = "out"
    /\ Len(recorded) + InFlight < MaxCalls
    /\ now' = now + gap
    /\ peers' = [peers EXCEPT ![t] = [NoPeer EXCEPT !.pc = "prune", !.now = now']]
    /\ UNCHANGED <<calls_per_minute, call_times, recorded, gov, dispatched, slept,
                   storeVars, turnVars>>

\* line 38, right-hand side: the list comprehension over self.call_times
SessionPrune(t) ==
    /\ peers[t].pc = "prune"
    /\ peers' = [peers EXCEPT ![t].pc = "assign",
                              ![t].pruned = Prune(call_times, peers[t].now)]
    /\ UNCHANGED <<now, calls_per_minute, call_times, recorded, gov, dispatched, slept,
                   storeVars, turnVars>>

\* line 38, the assignment to self.call_times
SessionAssign(t) ==
    /\ peers[t].pc = "assign"
    /\ call_times' = peers[t].pruned
    /\ peers' = [peers EXCEPT ![t].pc = "check", ![t].pruned = <<>>]
    /\ UNCHANGED <<now, calls_per_minute, recorded, gov, dispatched, slept,
                   storeVars, turnVars>>

\* lines 40-46: the capacity test on self.call_times as it is now, and the
\* start of the sleep
SessionCheck(t) ==
    /\ peers[t].pc = "check"
    /\ peers' = [peers EXCEPT ![t].pc = "record",
                              ![t].wake = now + WaitTime(call_times, peers[t].now,
                                                         calls_per_minute)]
    /\ UNCHANGED <<now, calls_per_minute, call_times, recorded, gov, dispatched, slept,
                   storeVars, turnVars>>

\* line 49: after the sleep, self.call_times.append(time.time())
SessionRecord(t, delay) ==
    /\ peers[t].pc = "record"
    /\ now' = Max(now, peers[t].wake) + delay
    /\ call_times' = Append(call_times, now')
    /\ recorded' = Append(recorded, now')
    /\ peers' = [peers EXCEPT ![t] = NoPeer]
    /\ UNCHANGED <<calls_per_minute, gov, dispatched, slept, storeVars, turnVars>>

(***************************************************************************)
(* Call governor: chat_with_mistral                                        *)
(***************************************************************************)
Returned(text) == <<[kind |-> "return", value |-> text]>>
Raised(exc)    == <<[kind |-> "raise", value |-> exc]>>

ExcText == "upstream failure"          \* str(e)
ExcClasses == {"ConnectionError", "TimeoutError", "Exception"}
Replies == {"Hi there!", "Thinking..."}

TimeoutMsg(timeout) ==
    "Error: Request timed out after " \o ToString(timeout) \o " seconds. Please try again."
ConnectionMsg ==
    "Connection error: " \o ExcText \o ". Please check your internet connection and try again."
OperationMsg ==
    "Operation timed out. The server might be experiencing high load. Please try again later."
UnexpectedMsg == "Error: " \o ExcText
ExhaustedMsg ==
    "Error: Could not get a response after multiple attempts. Please try again later."

\* Variant of ExceptClause: no catch-all clause, other classes propagate.
ExceptClause_no_catch_all(exc) ==
    IF exc = "ConnectionError" THEN "connection"
    ELSE IF exc = "TimeoutError" THEN "timeout"
    ELSE "propagate"

\* Variant of ExceptClause: the first clause catches every class.
ExceptClause_retry_all(exc) ==
    IF exc = "TimeoutError" THEN "timeout" ELSE "connection"

\* the except clause that catches an exception of class exc (lines 230, 241, 251)
ExceptClause(exc) ==
    IF exc = "ConnectionError" THEN "connection"
    ELSE IF exc = "TimeoutError" THEN "timeout"
    ELSE "unexpected"

\* sleep_time = 2 ** retries
RECURSIVE Pow(_, _)
Pow(b, n) == IF n = 0 THEN 1 ELSE b * Pow(b, n - 1)
SleepTime(retries) == Pow(BACKOFF_BASE, retries)

\* encode_pil_image_to_base64 and the data URL built from it
ImageUrl(image) == "data:image/png;base64," \o "b64(png(" \o image \o "))"

\* lines 205-211: processed_messages is a shallow copy, so the assignment to
\* processed_messages[-1]["content"] writes the dict the caller's list holds
WithImage(msgs, image) ==
    LET last_msg == msgs[Len(msgs)]
        content == <<[type |-> "text", text |-> last_msg.content],
                     [type |-> "image_url", image_url |-> [url |-> ImageUrl(image)]]>>
    IN  [msgs EXCEPT ![Len(msgs)].content = content]

\* Variant of while_test: the loop runs while retries < max_retries.
while_test_strict(frame) ==
    IF frame.retries < frame.max_retries
    THEN [frame EXCEPT !.pc = "rl_check", !.ret = "attempt"]
    ELSE [frame EXCEPT !.pc = "done",
                       !.result = <<[kind |-> "return",
                                     value |-> "Error: Could not get a response after multiple attempts. Please try again later."]>>]

\* the while test of line 192, and line 256 when it fails
while_test(frame) ==
    IF frame.retries <= frame.max_retries
    THEN [frame EXCEPT !.pc = "rl_check", !.ret = "attempt"]
    ELSE [frame EXCEPT !.pc = "done", !.result = Returned(ExhaustedMsg)]

\* lines 182-192: entry of chat_with_mistral
chat_with_mistral(caller, model, msgs, image, tokens, retries_allowed, timeout) ==
    while_test([NoCall EXCEPT !.caller = caller, !.model = model, !.messages = msgs,
                              !.image = image, !.max_tokens = tokens,
                              !.max_retries = retries_allowed, !.timeout = timeout,
                              !.start_time = now, !.retries = 0])

\* lines 230-253: what the except clauses do with an exception of class exc
handle(frame, exc) ==
    LET clause == ExceptClause(exc)
        retries == frame.retries + 1
    IN  IF clause \in {"connection", "timeout"}
        THEN IF retries <= frame.max_retries
             THEN [frame EXCEPT !.retries = retries, !.pc = "backoff"]
             ELSE [frame EXCEPT !.retries = retries, !.pc = "done",
                                !.result = Returned(IF clause = "connection"
                                                    THEN ConnectionMsg ELSE OperationMsg)]
        ELSE IF clause = "unexpected"
        THEN [frame EXCEPT !.pc = "done", !.result = Returned(UnexpectedMsg)]
        ELSE [frame EXCEPT !.pc = "done", !.result = Raised(exc)]

\* lines 197-228 and the except clauses: one pass of the try body after the
\* limiter returned.  outcome is what the upstream call (or the encoder) does,
\* duration the time the upstream call takes.
attempt(outcome, reply, duration) ==
    /\ gov.pc = "attempt"
    /\ outcome = "encode_error" => gov.image # <<>>
    /\ LET has_image == gov.image # <<>>
           pre == IF has_image /\ outcome = "encode_error" THEN "Exception"
                  ELSE IF has_image /\ Len(gov.messages) = 0 THEN "Exception"
                  ELSE "ok"
           processed == IF has_image /\ pre = "ok"
                        THEN WithImage(gov.messages, gov.image[1]) ELSE gov.messages
           timed_out == pre = "ok" /\ now - gov.start_time > gov.timeout
           sent == pre = "ok" /\ ~timed_out
           frame == [gov EXCEPT !.messages = processed]
       IN  /\ now' = IF sent THEN now + duration ELSE now
           /\ dispatched' = IF sent
                            THEN Append(dispatched, [model |-> gov.model,
                                                     messages |-> processed,
                                                     max_tokens |-> gov.max_tokens,
                                                     started |-> now,
                                                     outcome |-> outcome,
                                                     reply |-> IF outcome = "ok"
                                                               THEN reply ELSE ""])
                            ELSE dispatched
           /\ gov' = IF pre # "ok" THEN handle(frame, pre)
                     ELSE IF timed_out
                     THEN [frame EXCEPT !.pc = "done",
                                        !.result = Returned(TimeoutMsg(gov.timeout))]
                     ELSE IF outcome = "ok"
                     THEN [frame EXCEPT !.pc = "done", !.result = Returned(reply)]
                     ELSE handle(frame, outcome)
    /\ UNCHANGED <<calls_per_minute, peers, call_times, recorded, slept, storeVars, turnVars>>

\* lines 235-237 / 245-247: time.sleep(2 ** retries), then the while test
backoff(delay) ==
    /\ gov.pc = "backoff"
    /\ now' = now + SleepTime(gov.retries) + delay
    /\ slept' = Append(slept, SleepTime(gov.retries))
    /\ gov' = while_test(gov)
    /\ UNCHANGED <<calls_per_minute, peers, call_times, recorded, dispatched, storeVars, turnVars>>

(***************************************************************************)
(* Turn controller: ChatInterface.render and _process_pending_message      *)
(***************************************************************************)
\* _get_chat_title, called by every render pass that goes past line 118
TitlesAfterGet ==
    IF current_chat \in DOMAIN chat_titles THEN chat_titles
    ELSE IF Has(chat_sessions, current_chat) /\ Len(Get(chat_sessions, current_chat)) > 0
    THEN TPut(chat_titles, current_chat,
              _derive_title_from_message(Get(chat_sessions, current_chat)[1].content))
    ELSE chat_titles

\* Variant of FormReached: the render pass draws the form whatever is
\* pending.
FormReached_always == TRUE

\* lines 114-118: the render pass goes on to the title and the form only
\* when no message needs a response
FormReached == ~needs_response

\* a render pass with nothing pending and nothing submitted
Render ==
    /\ Idle
    /\ FormReached
    /\ chat_titles' = TitlesAfterGet
    /\ UNCHANGED <<chat_sessions, current_chat, messages, turnVars, govVars>>

\* lines 194-208 of a run in which the form was sent with files and no text:
\* the images are kept, nothing is submitted
UploadOnly(images) ==
    /\ Idle
    /\ FormReached
    /\ images # <<>>
    /\ Len(uploaded_images) + Len(images) <= MaxUploads
    /\ uploaded_images' = uploaded_images \o images
    /\ chat_titles' = TitlesAfterGet
    /\ UNCHANGED <<chat_sessions, current_chat, messages, thinking, needs_response,
                   last_user_input, selected_model, max_tokens, turns, govVars>>

\* lines 194-262, reached only when line 114 found nothing pending: the files
\* of the form are kept, then the text is submitted
Submit(user_input, images, model, tokens) ==
    /\ Idle
    /\ FormReached
    /\ turns < MaxTurns
    /\ Len(uploaded_images) + Len(images) <= MaxUploads
    /\ uploaded_images' = uploaded_images \o images
    /\ TotalMsgs(chat_sessions) < MaxMsgs
    /\ Len(messages) < MaxMsgs
    /\ last_user_input' = <<user_input>>
    /\ selected_model' = <<model>>
    /\ max_tokens' = <<tokens>>
    /\ messages' = Append(messages, Msg("user", user_input))
    /\ chat_sessions' = Put(chat_sessions, current_chat, messages')
    /\ chat_titles' = IF Len(messages') = 1
                      THEN TPut(TitlesAfterGet, current_chat,
                                _derive_title_from_message(user_input))
                      ELSE TitlesAfterGet
    /\ thinking' = TRUE
    /\ needs_response' = TRUE
    /\ turns' = turns + 1
    /\ UNCHANGED <<current_chat, govVars>>

\* lines 389-395
Transcript(msgs) ==
    SelectSeq(msgs, LAMBDA m : ~(m.role = "assistant" /\ m.content = "Thinking..."))

\* Variant of ShouldProcess: a pending message is processed only while the
\* indicator is off.
ShouldProcess_not_thinking == needs_response /\ ~thinking

\* Variant of ShouldProcess: the function goes on whatever the flag says.
ShouldProcess_always == TRUE

\* line 370: is there a message to process
ShouldProcess == needs_response

\* Variant of Finally: the saved input is kept.
Finally_keep_input ==
    [thinking |-> FALSE, needs_response |-> FALSE, last_user_input |-> last_user_input,
     uploaded_images |-> <<>>]

\* lines 423-435: the finally block; the next run's ChatInterface.__init__
\* (lines 53-57) puts an empty uploaded_images back
Finally == [thinking |-> FALSE, needs_response |-> FALSE, last_user_input |-> <<>>,
            uploaded_images |-> <<>>]

\* Variant of AfterCall: the reply is appended by the try body and once more
\* on the way out.
AfterCall_twice(msgs, outcome) ==
    LET text == IF outcome.kind = "return" THEN outcome.value ELSE "Error: " \o ExcText
    IN  Append(Append(msgs, Msg("assistant", text)), Msg("assistant", text))

\* lines 406-421: the view after the call returned or raised
AfterCall(msgs, outcome) ==
    IF outcome.kind = "return"
    THEN Append(msgs, Msg("assistant", outcome.value))
    ELSE Append(msgs, Msg("assistant", "Error: " \o ExcText))

\* lines 368-404: _process_pending_message up to the call of chat_with_mistral,
\* or to its return when it returns before calling
_process_pending_message ==
    /\ Idle
    /\ IF ~ShouldProcess
       THEN UNCHANGED <<thinking, needs_response, last_user_input, uploaded_images,
                        gov, dispatched, slept>>
       ELSE IF last_user_input = <<>>
       THEN /\ thinking' = Finally.thinking
            /\ needs_response' = Finally.needs_response
            /\ uploaded_images' = Finally.uploaded_images
            /\ UNCHANGED <<last_user_input, gov, dispatched, slept>>
       ELSE /\ gov' = chat_with_mistral(
                        "session",
                        IF selected_model # <<>> THEN selected_model[1] ELSE default_model,
                        Transcript(messages), <<>>,
                        IF max_tokens # <<>> THEN max_tokens[1] ELSE DEFAULT_MAX_TOKENS,
                        DEFAULT_MAX_RETRIES, DEFAULT_TIMEOUT)
            /\ dispatched' = <<>>
            /\ slept' = <<>>
            /\ UNCHANGED <<thinking, needs_response, last_user_input, uploaded_images>>
    /\ UNCHANGED <<selected_model, max_tokens, turns, now, calls_per_minute, peers, call_times,
                   recorded, storeVars>>

\* lines 114-116: the render pass finds a message that needs a response
ResolveBegin ==
    /\ needs_response
    /\ _process_pending_message

\* lines 406-435: the call returned or raised; append, then the finally block
ResolveEnd ==
    /\ gov.pc = "done"
    /\ gov.caller = "session"
    /\ messages' = AfterCall(messages, gov.result[1])
    /\ chat_sessions' = Put(chat_sessions, current_chat, messages')
    /\ thinking' = Finally.thinking
    /\ needs_response' = Finally.needs_response
    /\ last_user_input' = Finally.last_user_input
    /\ uploaded_images' = Finally.uploaded_images
    /\ gov' = NoCall
    /\ dispatched' = <<>>
    /\ slept' = <<>>
    /\ UNCHANGED <<current_chat, chat_titles, selected_model, max_tokens,
                   turns, now, calls_per_minute, peers, call_times, recorded>>

(***************************************************************************)
(* Direct callers of the governor and of the limiter                       *)
(***************************************************************************)
\* a caller other than the session's render pass enters chat_with_mistral
GovCall(model, msgs, image, tokens, retries_allowed, timeout) ==
    /\ Idle
    /\ gov' = chat_with_mistral("direct", model, msgs, image, tokens, retries_allowed, timeout)
    /\ dispatched' = <<>>
    /\ slept' = <<>>
    /\ UNCHANGED <<now, calls_per_minute, peers, call_times, recorded, storeVars, turnVars>>

\* rate_limiter.wait_if_needed() called on its own (test_api_connection,
\* get_available_models), gap seconds after the caller's previous return
WaitCall(gap) ==
    /\ Idle
    /\ Len(recorded) < MaxCalls
    /\ now' = now + gap
    /\ gov' = [NoCall EXCEPT !.pc = "rl_check", !.caller = "direct", !.ret = "none"]
    /\ UNCHANGED <<calls_per_minute, peers, call_times, recorded, dispatched, slept,
                   storeVars, turnVars>>

(***************************************************************************)
(* Specifications                                                          *)
(***************************************************************************)
Outcomes == {"ok"} \cup ExcClasses

\* the chat-store operations, on the minutes the clock may show and the names
\* a caller or the rename box may supply
StoreOps(minutes, names) ==
    \/ \E hm \in minutes : create_new_chat(hm)
    \/ \E n \in KeySet(chat_sessions) \cup {Ghost} : switch_to_chat(n)
    \/ \E n \in KeySet(chat_sessions) \cup {Ghost} : delete_chat(n)
    \/ \E n \in KeySet(chat_sessions) \cup {Ghost}, m \in names : rename_chat(n, m)
    \/ \E hm \in minutes : SidebarNew(hm)
    \/ \E t \in names : SidebarSave(t)
    \/ \E n \in KeySet(chat_sessions) : SidebarSwitch(n)
    \/ \E n \in KeySet(chat_sessions) : SidebarDelete(n)
    \/ Render

\* the limiter and the governor, upstream answering with one of outcomes
GovStep(outcomes, replies) ==
    \/ wait_if_needed_check
    \/ wait_if_needed_record(0)
    \/ \E o \in outcomes, r \in replies : attempt(o, r, 0)

Init == SessionInit /\ LimiterInit(DEFAULT_CPM)

\* One session over the module-level limiter: the chat store and the turn
\* controller together.  The clock shows one minute, upstream answers or fails
\* for good, and calls take no time.
Next ==
    \/ StoreOps({"00:00"}, {"", " ", "New Chat"})
    \/ \E u \in Texts, f \in FormInputs : Submit(u, f.images, f.model, f.max_tokens)
    \/ ResolveBegin
    \/ GovStep({"ok", "Exception"}, {"Hi there!"})
    \/ ResolveEnd

Spec == Init /\ [][Next]_vars

\* The turn controller over the governor, nothing else touching the session:
\* every upstream outcome, retries and back-off sleeps.
TurnStep ==
    \/ ResolveBegin
    \/ GovStep(Outcomes, Replies)
    \/ backoff(0)
    \/ ResolveEnd

TurnNext ==
    \/ \E u \in Texts, f \in FormInputs : Submit(u, f.images, f.model, f.max_tokens)
    \/ \E f \in FormInputs : UploadOnly(f.images)
    \/ _process_pending_message
    \/ TurnStep

\* Every handler ends in st.rerun(), and the render pass that follows runs
\* _process_pending_message to its end before anything else.
TurnSpec == Init /\ [][TurnNext]_vars /\ WF_vars(TurnStep)

\* The chat store alone: two minutes, every name input, appends.
StoreNext ==
    \/ StoreOps(Minutes, NameInputs)
    \/ \E m \in Appends : add_message(m.role, m.content)

StoreSpec == Init /\ [][StoreNext]_vars

\* One direct call of chat_with_mistral, the limiter holding what an earlier
\* wait_if_needed left in it.
Delays    == {0, 1}
Durations == {0, 1, 61}
Timeouts  == {30, 60}
Transcripts == {<<>>, <<Msg("user", "Hello")>>,
                <<Msg("user", "Hello"), Msg("assistant", "Hi there!"), Msg("user", "More")>>}
Images    == {<<>>, <<"img">>}

GovInit ==
    /\ SessionInit
    /\ \E cpm \in 1..MaxCap : calls_per_minute = cpm
    /\ \E earlier \in {<<>>, <<0>>} : call_times = earlier /\ recorded = earlier
    /\ now \in {0, 30}
    /\ gov = NoCall
    /\ dispatched = <<>>
    /\ slept = <<>>
    /\ peers = NoPeers

GovNext ==
    \/ \E msgs \in Transcripts, image \in Images, r \in 0..MaxRetries, t \in Timeouts :
          GovCall(default_model, msgs, image, DEFAULT_MAX_TOKENS, r, t)
    \/ wait_if_needed_check
    \/ \E d \in Delays : wait_if_needed_record(d)
    \/ \E o \in Outcomes \cup {"encode_error"}, r \in Replies, d \in Durations : attempt(o, r, d)
    \/ \E d \in Delays : backoff(d)

GovSpec == GovInit /\ [][GovNext]_vars

\* One sequential caller of wait_if_needed on a limiter of any cap.
Gaps == {0, 1, 20, 59, 60}

RLInit == SessionInit /\ \E cpm \in 1..MaxCap : LimiterInit(cpm)

RLNext ==
    \/ \E gap \in Gaps : WaitCall(gap)
    \/ wait_if_needed_check
    \/ \E d \in Delays : wait_if_needed_record(d)

RLSpec == RLInit /\ [][RLNext]_vars

\* The threads of several sessions in wait_if_needed on the one limiter, their
\* statements interleaved in any order.
SharedGaps == {0, 60}

SharedNext ==
    \E t \in Sessions :
        \/ \E gap \in SharedGaps : SessionEnter(t, gap)
        \/ SessionPrune(t)
        \/ SessionAssign(t)
        \/ SessionCheck(t)
        \/ \E d \in Delays : SessionRecord(t, d)

SharedSpec == RLInit /\ [][SharedNext]_vars

\* The title of a conversation whose first message is any of a family of
\* texts: every prefix, up to MaxTextLen characters, of texts without a
\* sentence break, with short sentences, with words only, and with a first
\* sentence that ends before, within and beyond the lengths the deriver
\* tests.
RECURSIVE Repeat(_, _)
Repeat(str, n) == IF n = 0 THEN "" ELSE str \o Repeat(str, n - 1)

TextPatterns ==
    { Repeat("abcdefgh", 9),
      Repeat("Hi. ", 18),
      Repeat("word ", 15),
      Repeat("Wait! Is it?  Yes.\n", 4),
      Repeat("a", 38) \o ". " \o Repeat("b", 30),
      Repeat("a", 44) \o "? " \o Repeat("b", 30),
      Repeat("a", 49) \o "! " \o Repeat("b", 30),
      Repeat("a", 52) \o ". " \o Repeat("b", 30),
      Repeat("a", 39) \o " ." \o Repeat("b", 30) }

TitleTexts == {Prefix(t, n) : t \in TextPatterns, n \in 1..MaxTextLen}

\* a session whose only conversation got text as its first message through
\* add_message, so that no title is cached yet
TitleInit ==
    /\ \E text \in TitleTexts :
          /\ chat_sessions = <<[k |-> "New Chat", v |-> <<Msg("user", text)>>]>>
          /\ messages = <<Msg("user", text)>>
    /\ current_chat = "New Chat"
    /\ chat_titles = EmptyDict
    /\ thinking = FALSE
    /\ needs_response = FALSE
    /\ last_user_input = <<>>
    /\ selected_model = <<>>
    /\ max_tokens = <<>>
    /\ uploaded_images = <<>>
    /\ turns = 0
    /\ LimiterInit(DEFAULT_CPM)

\* the render pass derives and caches the title
TitleNext == Render

TitleSpec == TitleInit /\ [][TitleNext]_vars

(***************************************************************************)
(* Properties of the chat store (StoreSpec)                                *)
(***************************************************************************)
\* C1: starting from {"New Chat": []}, after any sequence of create, switch,
\* delete, rename and append operations the set of conversations is never empty.
C1_ConversationsNeverEmpty == Len(chat_sessions) >= 1

\* C1 reached: deletes have brought the store back to one conversation, which
\* is not the initial one and holds an appended message.
C1_Witness ==
    /\ Len(chat_sessions) = 1
    /\ ~Has(chat_sessions, "New Chat")
    /\ Len(chat_sessions[1].v) > 0

\* C2: after any sequence of create, switch, delete and rename operations,
\* current_chat is a key of chat_sessions.
C2_CurrentChatIsKey == Has(chat_sessions, current_chat)

\* C2 reached: the active conversation is the second of two, under a name
\* given by a rename.
C2_Witness ==
    /\ Len(chat_sessions) = 2
    /\ current_chat = chat_sessions[2].k
    /\ current_chat = "New Chat"
    /\ chat_sessions[1].k = ChatName("00:01")

(***************************************************************************)
(* Properties of the turn controller                                       *)
(***************************************************************************)
\* C3: in every state of a session the pending turn is stored (last_user_input
\* present and needs_response true) exactly when thinking is true: the three
\* are set together by submit and cleared together by resolve, whether the
\* call succeeded or failed.
C3_PendingIffThinking ==
    /\ thinking <=> (last_user_input # <<>> /\ needs_response)
    /\ needs_response <=> last_user_input # <<>>

\* C3 reached: a turn whose call failed has been resolved and all three are
\* cleared.
C3_Witness ==
    /\ ~thinking
    /\ ~needs_response
    /\ last_user_input = <<>>
    /\ Len(messages) = 2
    /\ messages[2] = Msg("assistant", UnexpectedMsg)

\* C4: after a submit the view ends with the submitted user message and stays
\* as it is while the turn is awaited; the step that ends the turn appends
\* exactly one assistant message, holding the text chat_with_mistral returned
\* or "Error: " and the text of what it raised, directly after that user
\* message, and leaves the session idle with the turn cleared.
C4_ResolveAppendsOne ==
    [][ /\ (~thinking /\ thinking') =>
             /\ last_user_input' # <<>>
             /\ messages' = Append(messages, Msg("user", last_user_input'[1]))
        /\ (thinking /\ thinking') => messages' = messages
        /\ (thinking /\ ~thinking') =>
             /\ gov.pc = "done"
             /\ messages[Len(messages)] = Msg("user", last_user_input[1])
             /\ LET r == gov.result[1]
                    text == IF r.kind = "return" THEN r.value ELSE "Error: " \o ExcText
                IN  messages' = Append(messages, Msg("assistant", text))
             /\ Get(chat_sessions', current_chat') = messages'
             /\ ~needs_response'
             /\ last_user_input' = <<>>
             /\ gov'.pc = "none"
      ]_vars

\* C4 reached: "Hello" was submitted, the call returned "Hi there!", and the
\* session is idle again.
C4_Witness ==
    /\ messages = <<Msg("user", "Hello"), Msg("assistant", "Hi there!")>>
    /\ ~thinking
    /\ Idle

\* C5: whenever thinking is true the session later is idle again with thinking
\* false and the pending turn cleared, whatever the call does, given that
\* every upstream call and every sleep returns.
C5_EventuallyIdle ==
    thinking ~> (~thinking /\ ~needs_response /\ last_user_input = <<>> /\ Idle)

\* C5 reached: the awaited call has used up its retries on time-outs and is
\* about to hand back its error text.
C5_Witness ==
    /\ thinking
    /\ gov.pc = "done"
    /\ gov.result = Returned(OperationMsg)
    /\ Len(slept) = DEFAULT_MAX_RETRIES

(***************************************************************************)
(* Properties of the call governor (GovSpec) and the limiter (RLSpec)      *)
(***************************************************************************)
Retryable(x) == x.outcome \in {"ConnectionError", "TimeoutError"}
ErrorTexts ==
    {ConnectionMsg, OperationMsg, UnexpectedMsg, ExhaustedMsg}
        \cup {TimeoutMsg(t) : t \in Timeouts}

\* C6: whatever upstream does on each attempt and for every max_retries >= 0,
\* a finished chat_with_mistral has returned a string, the reply text or one
\* of its error texts; no exception leaves it.
C6_AlwaysReturnsString ==
    gov.pc = "done" =>
        /\ Len(gov.result) = 1
        /\ gov.result[1].kind = "return"
        /\ gov.result[1].value \in Replies \cup ErrorTexts

\* C6 reached: after max_retries retried failures the last attempt fails with
\* an exception of another class, and the call has returned its text.
C6_Witness ==
    /\ gov.pc = "done"
    /\ gov.max_retries = MaxRetries
    /\ Len(dispatched) = MaxRetries + 1
    /\ dispatched[Len(dispatched)].outcome = "Exception"
    /\ gov.result = Returned(UnexpectedMsg)

\* C7: chat_with_mistral makes at most max_retries + 1 upstream attempts and
\* at most max_retries retries, one counter counting the failures of both
\* classes; before the retry that follows the i-th failure it sleeps 2^i
\* seconds; once every attempt has failed with a connection or time-out error
\* it returns an error text (the encoder's, when an image could not be encoded
\* for the next attempt), the connection or time-out text only after
\* max_retries + 1 attempts; a successful attempt is the last one and its
\* reply is what the call returns.
C7_BoundedRetries ==
    LET n == Len(dispatched) IN
    gov.caller = "direct" =>
        /\ n <= gov.max_retries + 1
        /\ Len(slept) <= gov.max_retries
        /\ gov.retries = Cardinality({i \in 1..n : Retryable(dispatched[i])})
        /\ \A i \in 1..Len(slept) : slept[i] = 2^i /\ Retryable(dispatched[i])
        /\ gov.pc \in {"rl_check", "rl_record", "attempt"} => Len(slept) = n
        /\ \A i \in 1..n : dispatched[i].outcome = "ok" =>
               /\ i = n
               /\ gov.pc = "done"
               /\ gov.result = Returned(dispatched[i].reply)
        /\ (gov.pc = "done" /\ n >= 1 /\ Retryable(dispatched[n])) =>
               /\ gov.result \in {Returned(ConnectionMsg), Returned(OperationMsg),
                                  Returned(TimeoutMsg(gov.timeout))}
                                     \cup (IF gov.image # <<>>
                                           THEN {Returned(UnexpectedMsg)} ELSE {})
               /\ gov.result = Returned(ConnectionMsg) =>
                      n = gov.max_retries + 1 /\ dispatched[n].outcome = "ConnectionError"
               /\ gov.result = Returned(OperationMsg) =>
                      n = gov.max_retries + 1 /\ dispatched[n].outcome = "TimeoutError"

\* C7 reached: a connection error, a time-out, then a third failure have used
\* up max_retries = 2 with sleeps of 2 and 4 seconds.
C7_Witness ==
    /\ gov.pc = "done"
    /\ gov.max_retries = 2
    /\ Len(dispatched) = 3
    /\ dispatched[1].outcome = "ConnectionError"
    /\ dispatched[2].outcome = "TimeoutError"
    /\ dispatched[3].outcome = "ConnectionError"
    /\ slept = <<2, 4>>
    /\ gov.result = Returned(ConnectionMsg)

\* C8: an attempt that fails with an error of any other class is the last
\* one: the call is over with the error text, no sleep follows it and the
\* retry counter is left where it was, whatever the retries left.
C8_OtherErrorFailsFast ==
    \A i \in 1..Len(dispatched) : dispatched[i].outcome = "Exception" =>
        /\ i = Len(dispatched)
        /\ gov.pc = "done"
        /\ gov.result = Returned(UnexpectedMsg)
        /\ Len(slept) = i - 1
        /\ gov.retries = i - 1

\* C8 reached: the second attempt fails with another class while a retry is
\* still left.
C8_Witness ==
    /\ gov.pc = "done"
    /\ Len(dispatched) = 2
    /\ dispatched[2].outcome = "Exception"
    /\ gov.retries < gov.max_retries
    /\ slept = <<2>>

\* C9: for one sequential caller and any cap >= 1, the timestamp recorded for
\* call i + calls_per_minute is at least 60 seconds after that of call i; a
\* caller that finds the log at capacity is suspended 60 - (now - oldest)
\* seconds, any other caller not at all, and its timestamp is recorded after
\* the suspension.
C9_State ==
    /\ \A i \in 1..Len(recorded) :
          i + calls_per_minute <= Len(recorded) =>
              recorded[i + calls_per_minute] - recorded[i] >= 60
    /\ gov.pc = "rl_record" =>
          gov.wait_time = IF Len(call_times) >= calls_per_minute
                          THEN 60 - (now - call_times[1]) ELSE 0

C9_RateWindow ==
    /\ []C9_State
    /\ [][gov.pc = "rl_record" =>
             /\ now' >= now + gov.wait_time
             /\ recorded' = Append(recorded, now')]_vars

\* C9 reached: with a cap of 2, three calls back to back: the third is
\* recorded 60 seconds after the first.
C9_Witness ==
    /\ calls_per_minute = 2
    /\ Len(recorded) >= 3
    /\ recorded[2] = recorded[1]
    /\ recorded[3] = recorded[1] + 60

\* C10: a call that ends more than timeout seconds after it started, the
\* budget being exceeded before a response was obtained, returns the time-out
\* text, neither a reply nor another text, and nothing is dispatched after
\* that.
C10_TimeoutIsReturned ==
    (gov.pc = "done" /\ gov.caller = "direct" /\ now - gov.start_time > gov.timeout) =>
        gov.result = Returned(TimeoutMsg(gov.timeout))

\* C10 reached: the budget was found exceeded before a dispatch and the
\* time-out text returned, after an earlier attempt.
C10_Witness ==
    /\ gov.pc = "done"
    /\ gov.result = Returned(TimeoutMsg(gov.timeout))
    /\ Len(dispatched) = 1

(***************************************************************************)
(* Properties of the single chat-store operations (StoreSpec)              *)
(***************************************************************************)
\* a step of create_new_chat or of the "+ New" button
CreateStep(hm) == create_new_chat(hm) \/ SidebarNew(hm)

\* C11: every creation adds exactly one conversation, under a name no
\* conversation had, and leaves every conversation that existed as it was,
\* two creations in the same clock minute included.
C11_CreateAddsOne ==
    [][\A hm \in Minutes : CreateStep(hm) =>
          /\ ~Has(chat_sessions, ChatName(hm))
          /\ Len(chat_sessions') = Len(chat_sessions) + 1
          /\ \A i \in 1..Len(chat_sessions) : chat_sessions'[i] = chat_sessions[i]
      ]_vars

\* C11 reached: three conversations, two of them created in different minutes.
C11_Witness ==
    /\ Len(chat_sessions) = 3
    /\ Has(chat_sessions, ChatName("00:00"))
    /\ Has(chat_sessions, ChatName("00:01"))

\* C12: right after a creation the active conversation is the created name,
\* its stored message list is empty and the message view is empty.
C12_CreateActivatesEmpty ==
    [][\A hm \in Minutes : CreateStep(hm) =>
          /\ current_chat' = ChatName(hm)
          /\ Has(chat_sessions', current_chat')
          /\ Get(chat_sessions', current_chat') = <<>>
          /\ messages' = <<>>
      ]_vars

\* C12 reached: a conversation created while another one held a message is
\* active and empty.
C12_Witness ==
    /\ current_chat = ChatName("00:01")
    /\ messages = <<>>
    /\ Get(chat_sessions, current_chat) = <<>>
    /\ Has(chat_sessions, "New Chat")
    /\ Len(Get(chat_sessions, "New Chat")) > 0

\* a step of rename_chat(chat_name, new_name), or of the Save button when
\* chat_name is the active conversation
RenameStep(chat_name, new_name) ==
    \/ rename_chat(chat_name, new_name)
    \/ chat_name = current_chat /\ SidebarSave(new_name)

\* C13: a rename to the name of another existing conversation changes
\* nothing: conversations, their messages and titles and the active
\* conversation stay as they were.
C13_RenameConflictRefused ==
    [][\A n \in KeySet(chat_sessions), m \in NameInputs :
          (RenameStep(n, m) /\ m # n /\ Has(chat_sessions, m)) =>
              UNCHANGED <<chat_sessions, current_chat, chat_titles, messages>>
      ]_vars

\* new_name is a name a rename of chat_name can take without meeting another
\* conversation
FreeName(chat_name, new_name) ==
    /\ ~StripIsEmpty(new_name)
    /\ new_name # chat_name
    /\ ~Has(chat_sessions, new_name)

\* what a rename of n to m does to the conversations and the active one
RenameMovesList(n, m) ==
    /\ ~Has(chat_sessions', n)
    /\ Has(chat_sessions', m)
    /\ Get(chat_sessions', m) = Get(chat_sessions, n)
    /\ current_chat' = IF n = current_chat THEN m ELSE current_chat
    /\ \A k \in KeySet(chat_sessions) \ {n} :
          Has(chat_sessions', k) /\ Get(chat_sessions', k) = Get(chat_sessions, k)

\* the title cached for n is the title cached for m afterwards
RenameKeepsTitle(n, m) ==
    n \in DOMAIN chat_titles =>
        m \in DOMAIN chat_titles' /\ chat_titles'[m] = chat_titles[n]

BlankInputs == {"", " "}

\* C15: a rename to an empty or white-space-only name, or of a name that is
\* no conversation, changes nothing: conversations, titles, active
\* conversation and message view stay; the Save button does nothing on a
\* blank name.
C15_RenameRefused ==
    [][\A n \in KeySet(chat_sessions) \cup {Ghost}, m \in NameInputs :
          (m \in BlankInputs \/ n = Ghost) =>
              /\ rename_chat(n, m) =>
                    UNCHANGED <<chat_sessions, chat_titles, current_chat, messages>>
              /\ m \in BlankInputs => ~SidebarSave(m)
      ]_vars

\* C15 reached: a store on which such a rename has something to spoil: two
\* conversations, a cached title and a message in the view.
C15_Witness ==
    /\ Len(chat_sessions) = 2
    /\ current_chat \in DOMAIN chat_titles
    /\ Len(messages) > 0
    /\ ~Has(chat_sessions, Ghost)

\* a step of delete_chat(chat_name) or of the delete button of chat_name
DeleteStep(chat_name) == delete_chat(chat_name) \/ SidebarDelete(chat_name)

\* C16: with one conversation, a delete of it changes nothing: the same
\* single conversation with the same messages, still active; the sidebar
\* offers no delete.
C16_DeleteLastRefused ==
    [][\A n \in KeySet(chat_sessions) :
          Len(chat_sessions) = 1 =>
              /\ delete_chat(n) =>
                    UNCHANGED <<chat_sessions, chat_titles, current_chat, messages>>
              /\ ~SidebarDelete(n)
      ]_vars

\* C16 reached: one conversation is left after deletes, it holds a message
\* and is active.
C16_Witness ==
    /\ Len(chat_sessions) = 1
    /\ chat_sessions[1].k = ChatName("00:01")
    /\ current_chat = ChatName("00:01")
    /\ Len(chat_sessions[1].v) > 0
    /\ messages = chat_sessions[1].v

\* C17: with two or more conversations a delete removes that conversation
\* and no other, in place; when it was the active one, the first remaining
\* conversation in insertion order becomes active and the view becomes its
\* messages; otherwise active conversation and view stay.
C17_DeleteRemovesOne ==
    [][\A n \in KeySet(chat_sessions) :
          (DeleteStep(n) /\ Len(chat_sessions) >= 2) =>
              LET i == Idx(chat_sessions, n)
                  first == IF i = 1 THEN chat_sessions[2] ELSE chat_sessions[1]
              IN  /\ Len(chat_sessions') = Len(chat_sessions) - 1
                  /\ \A j \in 1..Len(chat_sessions') :
                        chat_sessions'[j] = chat_sessions[IF j < i THEN j ELSE j + 1]
                  /\ IF n = current_chat
                     THEN current_chat' = first.k /\ messages' = first.v
                     ELSE UNCHANGED <<current_chat, messages>>
      ]_vars

\* C17 reached: of three conversations the active first one was deleted; the
\* second, created in minute 00:00, is active and first now.
C17_Witness ==
    /\ Len(chat_sessions) = 2
    /\ ~Has(chat_sessions, "New Chat")
    /\ chat_sessions[1].k = ChatName("00:00")
    /\ chat_sessions[2].k = ChatName("00:01")
    /\ current_chat = ChatName("00:00")
    /\ messages = chat_sessions[1].v

\* a step of switch_to_chat(chat_name) or of the button of chat_name
SwitchStep(chat_name) == switch_to_chat(chat_name) \/ SidebarSwitch(chat_name)

\* C18: a switch to a name that is no conversation leaves active conversation
\* and view; a switch to a conversation makes it active and the view its
\* stored messages; neither changes the conversations.
C18_SwitchActivates ==
    [][\A n \in KeySet(chat_sessions) \cup {Ghost} :
          SwitchStep(n) =>
              /\ UNCHANGED <<chat_sessions, chat_titles>>
              /\ IF n = Ghost
                 THEN UNCHANGED <<current_chat, messages>>
                 ELSE current_chat' = n /\ messages' = Get(chat_sessions, n)
      ]_vars

\* C18 reached: the active conversation is an older one that holds a message,
\* a newer empty one stands behind it.
C18_Witness ==
    /\ Len(chat_sessions) = 2
    /\ current_chat = "New Chat"
    /\ chat_sessions[1].k = "New Chat"
    /\ Len(messages) = 1
    /\ messages = chat_sessions[1].v
    /\ chat_sessions[2].v = <<>>

\* what the claim asks of the step that appends content to the active
\* conversation: the first message sets the cached title to the title derived
\* from it, a later one leaves the cached titles
AppendSetsTitleOnce(content) ==
    IF Len(Get(chat_sessions, current_chat)) = 0
    THEN /\ current_chat \in DOMAIN chat_titles'
         /\ chat_titles'[current_chat] = _derive_title_from_message(content)
    ELSE UNCHANGED chat_titles

\* C19: an append of the first message of a conversation, by the submit
\* handler or by add_message, caches the title derived from that message; an
\* append of a later message leaves the cached title.
C19_FirstAppendSetsTitle ==
    [][/\ \A m \in Appends :
             add_message(m.role, m.content) => AppendSetsTitleOnce(m.content)
       /\ \A u \in Texts, f \in FormInputs :
             Submit(u, f.images, f.model, f.max_tokens) => AppendSetsTitleOnce(u)
      ]_vars

(***************************************************************************)
(* Properties of the title deriver (TitleSpec)                             *)
(***************************************************************************)
\* C20: the title derived from a non-empty text of at most 40 characters is
\* the text itself.
C20_ShortTextIsItsTitle ==
    LET text == messages[1].content IN
    (current_chat \in DOMAIN chat_titles /\ Len(text) >= 1 /\ Len(text) <= 40) =>
        chat_titles[current_chat] = text

\* C20 reached: the title of a text of exactly 40 characters that holds
\* sentence breaks has been derived.
C20_Witness ==
    /\ current_chat \in DOMAIN chat_titles
    /\ messages[1].content = Repeat("Hi. ", 10)
    /\ Len(chat_titles[current_chat]) = 40

\* C21: a derived title has at most 50 characters.
C21_TitleAtMostFifty ==
    current_chat \in DOMAIN chat_titles => Len(chat_titles[current_chat]) <= 50

\* C21 reached: titles of the three kinds have been derived: a first sentence
\* of exactly 50 characters, the first 40 characters and an ellipsis for a
\* first sentence of 53, and the same for a text without a sentence break.
C21_Witness ==
    /\ current_chat \in DOMAIN chat_titles
    /\ Len(messages[1].content) = MaxTextLen
    /\ \/ chat_titles[current_chat] = Repeat("a", 49) \o "!"
       \/ chat_titles[current_chat] = Repeat("a", 40) \o "..."
       \/ chat_titles[current_chat] = Repeat("abcdefgh", 5) \o "..."

\* C22: deriving a title from a derived title gives the same title.
C22_DeriveIsIdempotent ==
    current_chat \in DOMAIN chat_titles =>
        _derive_title_from_message(chat_titles[current_chat]) = chat_titles[current_chat]

\* C22 reached: a title longer than 40 characters has been derived, by the
\* first-sentence rule (45 characters) or by the ellipsis rule (43).
C22_Witness ==
    /\ current_chat \in DOMAIN chat_titles
    /\ \/ chat_titles[current_chat] = Repeat("a", 44) \o "?"
       \/ chat_titles[current_chat] = Prefix(Repeat("word ", 8), 40) \o "..."

(***************************************************************************)
(* Properties of a governor call with an image (GovSpec)                   *)
(***************************************************************************)
\* payload is transcript t with only its last message changed, to a text part
\* holding the text of that message and one image part
IsImagePayload(payload, t, image) ==
    /\ Len(payload) = Len(t)
    /\ \A i \in 1..(Len(t) - 1) : payload[i] = t[i]
    /\ Len(t) > 0 =>
          LET last_msg == payload[Len(t)] IN
          /\ last_msg.role = t[Len(t)].role
          /\ Len(last_msg.content) = 2
          /\ last_msg.content[1].type = "text"
          /\ last_msg.content[1].text = t[Len(t)].content
          /\ last_msg.content[2] = [type |-> "image_url",
                                    image_url |-> [url |-> ImageUrl(image)]]

\* C23: every payload a call with an image dispatches, on the first attempt and
\* on each retry, is the transcript of the call with only its last message
\* changed, to the text part with the message's text and one image part.
C23_ImageOnLastMessageOnly ==
    gov.image # <<>> =>
        \E t \in Transcripts :
            \A i \in 1..Len(dispatched) :
                IsImagePayload(dispatched[i].messages, t, gov.image[1])

\* C23 reached: a call with an image has dispatched its first attempt and a
\* retry.
C23_Witness ==
    /\ gov.image # <<>>
    /\ Len(dispatched) = 2
    /\ Len(dispatched[1].messages) = 3

(***************************************************************************)
(* Properties of the turns of a session with its sidebar (Spec)            *)
(***************************************************************************)
\* a step of the submit handler, with any form input
SubmitStep == \E u \in Texts, f \in FormInputs : Submit(u, f.images, f.model, f.max_tokens)

\* a step that ends _process_pending_message
ResolveStep == ResolveEnd \/ (ResolveBegin /\ last_user_input = <<>>)

\* C24: at most one turn is pending.  A submit takes effect only in a session
\* with no turn pending and makes one pending; only the end of a resolve
\* makes it not pending again, so one resolve lies between two submits; and
\* while a turn is pending its stored input, model and max_tokens stay as the
\* submit stored them until the resolve ends.
C24_OnePendingTurn ==
    [][ /\ SubmitStep =>
              /\ ~needs_response /\ ~thinking /\ last_user_input = <<>>
              /\ needs_response' /\ thinking' /\ last_user_input' # <<>>
        /\ (~needs_response /\ needs_response') => SubmitStep
        /\ (needs_response /\ ~needs_response') => ResolveStep
        /\ (needs_response /\ ~ResolveStep) =>
              /\ needs_response'
              /\ last_user_input' = last_user_input
              /\ selected_model' = selected_model
              /\ max_tokens' = max_tokens
      ]_vars

\* C24 reached: a second turn is pending after the first was resolved.
C24_Witness ==
    /\ turns = 2
    /\ needs_response
    /\ last_user_input # <<>>
    /\ Len(messages) = 3
    /\ messages[2].role = "assistant"

(***************************************************************************)
(* Properties of _process_pending_message (TurnSpec)                       *)
(***************************************************************************)
\* C25: _process_pending_message entered while no message needs a response
\* changes nothing: no message is appended, chat_with_mistral is not entered,
\* and the flags, the stored input, the uploaded images, the conversations and
\* the titles are as before.
C25_ResolveIdleIsNoOp ==
    [][(_process_pending_message /\ ~needs_response) => UNCHANGED vars]_vars

\* C25 reached: a session with nothing pending, after a resolved turn, holding
\* an uploaded image that a run of the finally block would drop.
C25_Witness ==
    /\ Idle
    /\ ~needs_response
    /\ ~thinking
    /\ Len(messages) = 2
    /\ uploaded_images # <<>>

(***************************************************************************)
(* Properties of what a resolve hands to chat_with_mistral (Spec)          *)
(***************************************************************************)
\* the step of a resolve that enters chat_with_mistral
ResolveCalls == ResolveBegin /\ gov'.pc # "none"

\* C26: the transcript a resolve passes to chat_with_mistral is the list of
\* messages stored for the active conversation, in order, without exactly the
\* assistant messages whose content is "Thinking...", and its last element is
\* the user message of the pending turn.
C26_TranscriptOfActiveChat ==
    [][ResolveCalls =>
          LET stored == Get(chat_sessions, current_chat)
              transcript == gov'.messages
          IN  /\ transcript = SelectSeq(stored,
                     LAMBDA m : ~(m.role = "assistant" /\ m.content = "Thinking..."))
              /\ Len(transcript) > 0
              /\ transcript[Len(transcript)] = Msg("user", last_user_input[1])
      ]_vars

\* C26 reached: a resolve has entered chat_with_mistral for a pending turn
\* after the active conversation was changed to an empty one.
C26_Witness ==
    /\ gov.caller = "session"
    /\ gov.pc # "none"
    /\ last_user_input # <<>>
    /\ gov.messages = <<>>
    /\ Len(chat_sessions) = 2

\* C27: a resolve enters chat_with_mistral with what the submit of the pending
\* turn took from the form: its model, its max_tokens and its image, no image
\* when none was attached.
C27_CallUsesSubmittedForm ==
    [][ResolveCalls =>
          \E f \in FormInputs :
              /\ selected_model = <<f.model>>
              /\ max_tokens = <<f.max_tokens>>
              /\ gov'.model = f.model
              /\ gov'.max_tokens = f.max_tokens
              /\ gov'.image = f.images
      ]_vars

\* C27 reached: a call is running for a turn that was submitted with an image.
C27_Witness ==
    /\ gov.caller = "session"
    /\ gov.pc # "none"
    /\ uploaded_images = <<"img">>
    /\ selected_model = <<"mistral-large-latest">>
    /\ gov.model = "mistral-large-latest"
    /\ gov.max_tokens = 250

(***************************************************************************)
(* Properties of the limiter shared by several sessions (SharedSpec)       *)
(***************************************************************************)
\* C28: with the threads of several sessions in wait_if_needed at once, their
\* statements interleaved, no 60-second window holds more than
\* calls_per_minute recorded timestamps: the timestamp recorded
\* calls_per_minute calls after another is at least 60 seconds later.
C28_SharedBudget ==
    \A i \in 1..Len(recorded) :
        i + calls_per_minute <= Len(recorded) =>
            recorded[i + calls_per_minute] - recorded[i] >= 60

\* C28 reached: with a cap of 1, every thread has passed the capacity test
\* on the empty log and is about to append its timestamp.
C28_Witness ==
    /\ calls_per_minute = 1
    /\ call_times = <<>>
    /\ \A t \in Sessions : peers[t].pc = "record" /\ peers[t].wake = 0

(***************************************************************************)
(* Properties of the active view and of the turn's conversation            *)
(***************************************************************************)
\* C29: in every state the active message view holds what is stored for the
\* active conversation.
C29_ViewIsStoredList ==
    Has(chat_sessions, current_chat) /\ messages = Get(chat_sessions, current_chat)

\* C30: the step that ends a resolve appends the assistant message to the
\* conversation whose list ends with the user message of the pending turn, and
\* the list of every other conversation stays as it is, whatever was done to
\* the active conversation since the submit.
C30_ReplyToSubmittedChat ==
    [][ResolveEnd =>
          \E c \in KeySet(chat_sessions) :
              LET before == Get(chat_sessions, c) IN
              /\ Len(before) > 0
              /\ before[Len(before)] = Msg("user", last_user_input[1])
              /\ Has(chat_sessions', c)
              /\ Get(chat_sessions', c) = AfterCall(before, gov.result[1])
              /\ \A d \in KeySet(chat_sessions) \ {c} :
                    Has(chat_sessions', d) /\ Get(chat_sessions', d) = Get(chat_sessions, d)
      ]_vars

\* C30 reached: a turn has been resolved after the active conversation was
\* changed: the reply is the only message of one conversation and the user
\* message the only message of another.
C30_Witness ==
    /\ ~needs_response
    /\ \E c, d \in KeySet(chat_sessions) :
          /\ Get(chat_sessions, c) = <<Msg("user", "Hello")>>
          /\ Get(chat_sessions, d) = <<Msg("assistant", "Hi there!")>>

(***************************************************************************)
(* Properties of the cached titles (StoreSpec)                             *)
(***************************************************************************)
\* C31: in every state each key of chat_titles is the name of a conversation
\* in chat_sessions, so that no conversation created or renamed later finds a
\* title left under its name.
C31_TitleKeysAreChats ==
    \A k \in DOMAIN chat_titles : Has(chat_sessions, k)

\* C31 reached: a conversation with a cached title was deleted and the only
\* conversation left is another one.
C31_Witness ==
    /\ Len(chat_sessions) = 1
    /\ chat_sessions[1].k = "New Chat"
    /\ ChatName("00:00") \in DOMAIN chat_titles
    /\ chat_titles[ChatName("00:00")] = "Thinking..."

\* C32: a successful rename_chat of a conversation without messages that is
\* displayed under its own name, no title being cached for it or the one an
\* earlier rename cached, leaves it displayed under the new name.
C32_RenameShowsNewName ==
    [][\A n \in KeySet(chat_sessions), m \in NameInputs :
          ( /\ rename_chat(n, m)
            /\ m \notin BlankInputs
            /\ Get(chat_sessions, n) = <<>>
            /\ get_chat_title(n) = n ) =>
              (IF m \in DOMAIN chat_titles' THEN chat_titles'[m] ELSE m) = m
      ]_vars

\* C32 reached: the only conversation, without messages, has been renamed to
\* "Chat 00:00" and back to "New Chat", and a title is cached for it.
C32_Witness ==
    /\ chat_sessions = <<[k |-> "New Chat", v |-> <<>>]>>
    /\ DOMAIN chat_titles = {"New Chat"}
    /\ chat_titles["New Chat"] = ChatName("00:00")

\* C33: rename_chat of an existing conversation to its own name changes
\* nothing: the same conversations with the same messages, the same active
\* conversation and view, and the same title cached for the name.
C33_RenameToSelfIsNoOp ==
    [][\A n \in KeySet(chat_sessions) :
          (rename_chat(n, n) /\ n \notin BlankInputs) =>
              /\ KeySet(chat_sessions') = KeySet(chat_sessions)
              /\ \A k \in KeySet(chat_sessions) :
                    Get(chat_sessions', k) = Get(chat_sessions, k)
              /\ current_chat' = current_chat
              /\ messages' = messages
              /\ (n \in DOMAIN chat_titles) =>
                    (n \in DOMAIN chat_titles' /\ chat_titles'[n] = chat_titles[n])
      ]_vars

\* C33 reached: "New Chat" holds a message and no title is cached for it,
\* though one was derived from that message before.
C33_Witness ==
    /\ chat_sessions = <<[k |-> "New Chat", v |-> <<Msg("assistant", "Thinking...")>>]>>
    /\ chat_titles = EmptyDict

(***************************************************************************)
(* The caller's transcript across a governor call (GovSpec)                *)
(***************************************************************************)
\* C34: when chat_with_mistral has returned, the list its caller passed holds
\* the messages of the transcript of the call, each with its role and its
\* content, with or without an image and after any number of attempts.
C34_CallerTranscriptUntouched ==
    gov.pc = "done" =>
        \E t \in Transcripts :
            /\ Len(gov.messages) = Len(t)
            /\ \A i \in 1..Len(t) :
                  /\ gov.messages[i].role = t[i].role
                  /\ gov.messages[i].content = t[i].content

\* C34 reached: a call with an image and a transcript of three messages has
\* returned after one dispatched attempt.
C34_Witness ==
    /\ gov.pc = "done"
    /\ gov.image # <<>>
    /\ Len(gov.messages) = 3
    /\ Len(dispatched) = 1

(***************************************************************************)
(* The sidebar's handlers against the session_state functions (StoreSpec)  *)
(***************************************************************************)
\* C35: each inline handler of the sidebar leaves the conversations, the
\* active conversation, the message view and the cached titles that the
\* session_state function of the same name leaves from the same state and
\* arguments: new as create_new_chat, switch as switch_to_chat, delete as
\* delete_chat, save as rename_chat of the active conversation.
C35_HandlersMatchFunctions ==
    [][ /\ \A hm \in Minutes : SidebarNew(hm) => create_new_chat(hm)
        /\ \A n \in KeySet(chat_sessions) : SidebarSwitch(n) => switch_to_chat(n)
        /\ \A n \in KeySet(chat_sessions) : SidebarDelete(n) => delete_chat(n)
        /\ \A t \in NameInputs : SidebarSave(t) => rename_chat(current_chat, t)
      ]_vars

\* C35 reached: the active conversation was saved under a new name while a
\* title was cached for its old one, and both titles are cached.
C35_Witness ==
    /\ chat_sessions = <<[k |-> ChatName("00:00"), v |-> <<>>]>>
    /\ current_chat = ChatName("00:00")
    /\ DOMAIN chat_titles = {"New Chat", ChatName("00:00")}
    /\ chat_titles["New Chat"] = "New Chat"
    /\ chat_titles[ChatName("00:00")] = ChatName("00:00")

(***************************************************************************)
(* Turns and chat-store operations that never overlap                      *)
(***************************************************************************)
\* A session whose sidebar is used only while no message needs a response:
\* the handlers of create_sidebar and the session_state functions run between
\* turns, never between a submit and the end of its resolve.
IdleStoreNext ==
    \/ ~needs_response /\ StoreOps({"00:00"}, NameInputs)
    \/ \E u \in Texts, f \in FormInputs : Submit(u, f.images, f.model, f.max_tokens)
    \/ ResolveBegin
    \/ GovStep({"ok", "Exception"}, {"Hi there!"})
    \/ ResolveEnd

IdleStoreSpec == Init /\ [][IdleStoreNext]_vars

\* the roles of msgs are user, assistant, user, assistant, ... from the first
Alternates(msgs) ==
    \A i \in 1..Len(msgs) : msgs[i].role = IF i % 2 = 1 THEN "user" ELSE "assistant"

\* C36: with the chat store used only between turns, the messages of every
\* conversation alternate user, assistant, user, assistant from a first user
\* message, and while no message needs a response every conversation holds an
\* even number of messages.
C36_TurnsAlternate ==
    \A i \in 1..Len(chat_sessions) :
        /\ Alternates(chat_sessions[i].v)
        /\ ~needs_response => Len(chat_sessions[i].v) % 2 = 0

\* C36 reached: two turns were resolved in one conversation, another
\* conversation was created since, and nothing is pending.
C36_Witness ==
    /\ ~needs_response
    /\ Len(chat_sessions) = 2
    /\ \E i \in 1..2 : Len(chat_sessions[i].v) = 4

====
